---- MODULE Spec2Model ----
(***************************************************************************)
(* eyewitness2: the concurrent multi-target scan pipeline (main.py), the   *)
(* capture session (modules/browser.py), the header analysis               *)
(* (modules/headers_analyzer.py), the fingerprint engine                   *)
(* (modules/signature_analyzer.py) and the result aggregator               *)
(* (modules/reporter.py).                                                  *)
(*                                                                         *)
(* Spec is one batch; SpecRules is one batch while the rule files are      *)
(* edited; SpecFP, SpecHA and SpecBH are one engine run, one header        *)
(* analysis and one BrowserHandler, each over all of its inputs.           *)
(*                                                                         *)
(* Text is a sequence of one-character strings, so that split, strip,      *)
(* lower and the substring test are computed as Python computes them.      *)
(***************************************************************************)
EXTENDS Integers, Sequences, FiniteSets, TLC

VARIABLES
    \* ---- fingerprint engine (signature_analyzer.py)
    sigFile,      \* data/signatures.txt: the raw lines
    catFile,      \* data/categories.txt: the raw lines
    page,         \* the rendered page handed to analyze: [content, title]
    signatures,   \* SignatureAnalyzer.signatures
    categories,   \* SignatureAnalyzer.categories
    result,       \* what analyze returned
    catLoop,      \* the category loop of that run: its category, the lines it visited
    fpc,          \* position of the engine run: "new" | "loaded" | "analyzed"
    \* ---- scan pipeline (main.py, browser.py, reporter.py)
    targets,      \* args.urls
    mainpc,       \* position of main(): "gather" | "report" | "done"
    pc,           \* position of each process_url task
    res,          \* each task's local `results` dict
    analyzer,     \* each task's SignatureAnalyzer: the rule lists it loaded
    handler,      \* each task's BrowserHandler: what it holds, and its state
    fault,        \* the steps that went wrong in each task (empty when none did)
    outcome,      \* what each task ended with: a dict, or a raised exception
    lastDone,     \* the task that completed last (0 before any has)
    results,      \* main()'s `results`, as gather returned it
    stats,        \* generate_reports' `stats`
    dirs,         \* the per-target directories that exist
    files,        \* the files written: path -> [by, content]
    clock,        \* datetime.now()
    steps,        \* the steps each task has entered, in the order it entered them
    \* ---- one call of HeadersAnalyzer.analyze (headers_analyzer.py)
    response,     \* response.headers of the fetch: name/value pairs, names distinct
    security,     \* result["security_headers"]
    hapc,         \* position of the call: "fetched" | "analyzed"
    \* ---- one BrowserHandler and its callers (browser.py)
    session,      \* the handler: what playwright, browser and context hold
    released,     \* how often each resource's release has been called
    closeCalls,   \* how often close() has been called by the handler's owner
    raised,       \* what the last call on the handler raised (None when it returned)
    bhpc          \* "new" | "navigated" | "failed"

fpvars == <<sigFile, catFile, page, signatures, categories, result, catLoop, fpc>>
scanvars == <<targets, mainpc, pc, res, analyzer, handler, fault, outcome, lastDone,
              results, stats, dirs, files, clock, steps>>
havars == <<response, security, hapc>>
bhvars == <<session, released, closeCalls, raised, bhpc>>
vars == <<sigFile, catFile, page, signatures, categories, result, catLoop, fpc,
          targets, mainpc, pc, res, analyzer, handler, fault, outcome, lastDone,
          results, stats, dirs, files, clock, steps,
          response, security, hapc,
          session, released, closeCalls, raised, bhpc>>

(***************************************************************************)
(* Bounds.                                                                 *)
(***************************************************************************)
\* Rule-file lines over both rule files of one engine run.
MaxLines == 3
\* Target URLs of one batch.
MaxTargets == 2
\* Response headers of one header fetch.
MaxHeaders == 2
\* Calls of close() by the owner of one BrowserHandler.
MaxCloses == 2

(***************************************************************************)
(* Python's str operations on text.                                        *)
(***************************************************************************)
\* Python's None, where text may stand: no text holds a several-letter character
None == <<"None">>

\* `not x` for an optional text
Falsy(x) == x = None \/ x = <<>>

UpperCase == <<"A", "B", "C", "D", "E", "F", "G", "H", "I", "J", "K", "L", "M",
               "N", "O", "P", "Q", "R", "S", "T", "U", "V", "W", "X", "Y", "Z">>
LowerCase == <<"a", "b", "c", "d", "e", "f", "g", "h", "i", "j", "k", "l", "m",
               "n", "o", "p", "q", "r", "s", "t", "u", "v", "w", "x", "y", "z">>

\* str.lower() on one character
LowerChar(c) ==
    IF \E k \in 1..Len(UpperCase) : UpperCase[k] = c
    THEN LowerCase[CHOOSE k \in 1..Len(UpperCase) : UpperCase[k] = c]
    ELSE c

\* str.lower()
Lower(s) == [k \in 1..Len(s) |-> LowerChar(s[k])]

\* `p in s`
Contains(s, p) ==
    \E k \in 0..(Len(s) - Len(p)) : SubSeq(s, k + 1, k + Len(p)) = p

\* str.find(c): the first position of character c in s, 0 when there is none
Find(s, c) ==
    IF \E k \in 1..Len(s) : s[k] = c
    THEN CHOOSE k \in 1..Len(s) : s[k] = c /\ \A j \in 1..(k - 1) : s[j] # c
    ELSE 0

\* str.split(sep) for a one-character separator: always at least one part
RECURSIVE Split(_, _)
Split(s, sep) ==
    LET k == Find(s, sep)
    IN  IF k = 0 THEN <<s>>
        ELSE <<SubSeq(s, 1, k - 1)>> \o Split(SubSeq(s, k + 1, Len(s)), sep)

\* str.strip(): the only whitespace of the alphabet is the blank
RECURSIVE LStrip(_)
LStrip(s) == IF s # <<>> /\ Head(s) = " " THEN LStrip(Tail(s)) ELSE s

RECURSIVE RStrip(_)
RStrip(s) ==
    IF s # <<>> /\ s[Len(s)] = " " THEN RStrip(SubSeq(s, 1, Len(s) - 1)) ELSE s

Strip(s) == RStrip(LStrip(s))

\* str.startswith for one character
StartsWith(s, c) == s # <<>> /\ Head(s) = c

(***************************************************************************)
(* Signature Rule Store: SignatureAnalyzer._load_signatures_and_categories *)
(***************************************************************************)
\* A rule file that does not exist
Missing == <<<<"Missing">>>>

\* [line.strip() for line in f if line.strip() and not line.startswith('#')]
LoadLines(file) ==
    LET kept == SelectSeq(file, LAMBDA line :
                    Strip(line) # <<>> /\ ~StartsWith(line, "#"))
    IN  [k \in 1..Len(kept) |-> Strip(kept[k])]

\* the list stays [] when the file does not exist
LoadFile(file) == IF file = Missing THEN <<>> ELSE LoadLines(file)

(***************************************************************************)
(* Fingerprint Engine: SignatureAnalyzer.analyze                           *)
(***************************************************************************)
\* the match with any() for all()
AnyPatternMatches(patterns, content) ==
    \E k \in 1..Len(patterns) : Contains(Lower(content), Lower(patterns[k]))

\* all(pattern.lower() in content.lower() for pattern in patterns)
AllPatternsMatch(patterns, content) ==
    \A k \in 1..Len(patterns) : Contains(Lower(content), Lower(patterns[k]))

\* re.match(r'\((.*?)\)(.*)', cred_info): group(1).strip(), else patterns[0]
AppName(cred_info, patterns) ==
    LET close == IF StartsWith(cred_info, "(") THEN Find(cred_info, ")") ELSE 0
    IN  IF close # 0 THEN Strip(SubSeq(cred_info, 2, close - 1))
        ELSE patterns[1]

\* the pass that appends the credential text without looking for it first
SignatureStepNoDedup(acc, sig, content) ==
    LET sig_parts == Split(sig, "|")
        patterns  == Split(sig_parts[1], ";")
        cred_info == Strip(sig_parts[2])
    IN  IF Len(sig_parts) < 2 THEN acc
        ELSE IF ~AllPatternsMatch(patterns, content) THEN acc
        ELSE [identified_applications |->
                  Append(acc.identified_applications,
                         [name        |-> AppName(cred_info, patterns),
                          patterns    |-> patterns,
                          credentials |-> cred_info]),
              default_credentials |-> Append(acc.default_credentials, cred_info)]

\* the pass that keeps a credential text only when it is not empty
SignatureStepSkipEmpty(acc, sig, content) ==
    LET sig_parts == Split(sig, "|")
        patterns  == Split(sig_parts[1], ";")
        cred_info == Strip(sig_parts[2])
    IN  IF Len(sig_parts) < 2 THEN acc
        ELSE IF ~AllPatternsMatch(patterns, content) THEN acc
        ELSE [identified_applications |->
                  Append(acc.identified_applications,
                         [name        |-> AppName(cred_info, patterns),
                          patterns    |-> patterns,
                          credentials |-> cred_info]),
              default_credentials |->
                  IF \/ cred_info = <<>>
                     \/ \E k \in 1..Len(acc.default_credentials) :
                            acc.default_credentials[k] = cred_info
                  THEN acc.default_credentials
                  ELSE Append(acc.default_credentials, cred_info)]

\* one pass of the body of `for sig in self.signatures`
SignatureStep(acc, sig, content) ==
    LET sig_parts == Split(sig, "|")
        patterns  == Split(sig_parts[1], ";")
        cred_info == Strip(sig_parts[2])
    IN  IF Len(sig_parts) < 2 THEN acc
        ELSE IF ~AllPatternsMatch(patterns, content) THEN acc
        ELSE [identified_applications |->
                  Append(acc.identified_applications,
                         [name        |-> AppName(cred_info, patterns),
                          patterns    |-> patterns,
                          credentials |-> cred_info]),
              default_credentials |->
                  IF \E k \in 1..Len(acc.default_credentials) :
                         acc.default_credentials[k] = cred_info
                  THEN acc.default_credentials
                  ELSE Append(acc.default_credentials, cred_info)]

\* for sig in self.signatures: ...
RECURSIVE SignatureScan(_, _, _)
SignatureScan(acc, sigs, content) ==
    IF sigs = <<>> THEN acc
    ELSE SignatureScan(SignatureStep(acc, Head(sigs), content), Tail(sigs), content)

\* the category loop without its break: the last matching rule wins
RECURSIVE CategoryScanNoBreak(_, _, _)
CategoryScanNoBreak(cats, content, evaluated) ==
    IF cats = <<>> THEN [category |-> None, evaluated |-> evaluated]
    ELSE LET cat_parts == Split(Head(cats), "|")
             patterns  == Split(cat_parts[1], ";")
             cat_name  == Strip(cat_parts[2])
             rest      == CategoryScanNoBreak(Tail(cats), content, evaluated + 1)
         IN  IF /\ Len(cat_parts) >= 2
                /\ AllPatternsMatch(patterns, content)
                /\ rest.category = None
             THEN [category |-> cat_name, evaluated |-> rest.evaluated]
             ELSE rest

\* for cat in self.categories: ... break at the first match. `evaluated` counts
\* the lines the loop visited.
RECURSIVE CategoryScan(_, _, _)
CategoryScan(cats, content, evaluated) ==
    IF cats = <<>> THEN [category |-> None, evaluated |-> evaluated]
    ELSE LET cat_parts == Split(Head(cats), "|")
             patterns  == Split(cat_parts[1], ";")
             cat_name  == Strip(cat_parts[2])
         IN  IF Len(cat_parts) >= 2 /\ AllPatternsMatch(patterns, content)
             THEN [category |-> cat_name, evaluated |-> evaluated + 1]
             ELSE CategoryScan(Tail(cats), content, evaluated + 1)

T403 == <<"4", "0", "3", " ", "F", "o", "r", "b", "i", "d", "d", "e", "n">>
T401 == <<"4", "0", "1", " ", "U", "n", "a", "u", "t", "h", "o", "r", "i", "z", "e", "d">>
TIndexOf == <<"I", "n", "d", "e", "x", " ", "o", "f", " ", "/">>
TDirListing == <<"D", "i", "r", "e", "c", "t", "o", "r", "y", " ", "L", "i", "s",
                 "t", "i", "n", "g", " ", "F", "o", "r", " ", "/">>
TDirOf == <<"D", "i", "r", "e", "c", "t", "o", "r", "y", " ", "o", "f", " ", "/">>
T404 == <<"4", "0", "4", " ", "N", "o", "t", " ", "F", "o", "u", "n", "d">>

Unauth == <<"u", "n", "a", "u", "t", "h">>
Dirlist == <<"d", "i", "r", "l", "i", "s", "t">>
Notfound == <<"n", "o", "t", "f", "o", "u", "n", "d">>

\* the title heuristics with the directory-listing test ahead of the unauth test
FallbackCategorySwapped(category, page_title) ==
    IF ~(Falsy(category) /\ page_title # <<>>) THEN category
    ELSE IF \/ Contains(page_title, TIndexOf)
            \/ Contains(page_title, TDirListing)
            \/ Contains(page_title, TDirOf) THEN Dirlist
    ELSE IF Contains(page_title, T403) \/ Contains(page_title, T401) THEN Unauth
    ELSE IF Contains(page_title, T404) THEN Notfound
    ELSE category

\* if not result["category"] and page_title: ... the title heuristics
FallbackCategory(category, page_title) ==
    IF ~(Falsy(category) /\ page_title # <<>>) THEN category
    ELSE IF Contains(page_title, T403) \/ Contains(page_title, T401) THEN Unauth
    ELSE IF \/ Contains(page_title, TIndexOf)
            \/ Contains(page_title, TDirListing)
            \/ Contains(page_title, TDirOf) THEN Dirlist
    ELSE IF Contains(page_title, T404) THEN Notfound
    ELSE category

EmptyFindings == [identified_applications |-> <<>>, default_credentials |-> <<>>]

\* SignatureAnalyzer.analyze(page), content and title fetched
AnalyzePage(sigs, cats, p) ==
    LET found == SignatureScan(EmptyFindings, sigs, p.content)
        scan  == CategoryScan(cats, p.content, 0)
    IN  [identified_applications |-> found.identified_applications,
         default_credentials     |-> found.default_credentials,
         category                |-> FallbackCategory(scan.category, p.title)]

\* the result analyze returns when page.content() or page.title() raised
AnalyzeFailed ==
    [identified_applications |-> <<>>, default_credentials |-> <<>>,
     category |-> None]

(***************************************************************************)
(* The inputs of an engine run: rule-file lines, page contents and titles. *)
(***************************************************************************)
RECURSIVE SeqsUpTo(_, _)
SeqsUpTo(S, n) ==
    IF n = 0 THEN {<<>>}
    ELSE LET shorter == SeqsUpTo(S, n - 1)
         IN  shorter \cup {Append(q, x) : q \in shorter, x \in S}

SigLines ==
    { <<"a", ";", "B", "|", "(", "W", ")", "c">>,       \* a;B|(W)c
      <<"b", "|", "(", "W", ")", "c">>,                 \* b|(W)c
      <<"|", "c">>,                                     \* |c
      <<"a">>,                                          \* a
      <<"A", "|">>,                                     \* A|
      <<"#", "a", "|", "c">>,                           \* #a|c
      <<" ", "a", "b", "|", " ", "c", " ", "|", "z">> } \*  ab| c |z

CatLines ==
    { <<"a", "|", "x">>,                                \* a|x
      <<"b", "|", "y">>,                                \* b|y
      <<"B", "|">>,                                     \* B|
      <<"a">>,                                          \* a
      <<"|", "z">> }                                    \* |z

Contents == { <<>>, <<"A">>, <<"A", "b">>, <<"b">> }

Titles ==
    { <<>>, T403, T401 \o TIndexOf, TDirListing, TDirOf \o T404, T404,
      Lower(T404), TIndexOf \o T403 }

RuleFiles ==
    { f \in [sig : SeqsUpTo(SigLines, MaxLines) \cup {Missing},
             cat : SeqsUpTo(CatLines, MaxLines) \cup {Missing}] :
        (IF f.sig = Missing THEN 0 ELSE Len(f.sig))
          + (IF f.cat = Missing THEN 0 ELSE Len(f.cat)) <= MaxLines }

(***************************************************************************)
(* The pipeline at rest, for the engine's own specification.               *)
(***************************************************************************)
ScanIdle ==
    /\ targets = <<>>
    /\ mainpc = "done"
    /\ pc = <<>>
    /\ res = <<>>
    /\ analyzer = <<>>
    /\ handler = <<>>
    /\ fault = <<>>
    /\ outcome = <<>>
    /\ lastDone = 0
    /\ results = <<>>
    /\ stats = <<>>
    /\ dirs = {}
    /\ files = <<>>
    /\ clock = 0
    /\ steps = <<>>

\* no engine run under way
EngineIdle ==
    /\ sigFile = <<>>
    /\ catFile = <<>>
    /\ page = [content |-> <<>>, title |-> <<>>]
    /\ signatures = <<>>
    /\ categories = <<>>
    /\ result = AnalyzeFailed
    /\ catLoop = [category |-> None, evaluated |-> 0]
    /\ fpc = "idle"

\* no call of HeadersAnalyzer.analyze under way
HeadersIdle ==
    /\ response = <<>>
    /\ security = <<>>
    /\ hapc = "idle"

\* no BrowserHandler of its own
HandlerIdle ==
    /\ session = <<>>
    /\ released = <<>>
    /\ closeCalls = 0
    /\ raised = None
    /\ bhpc = "idle"

(***************************************************************************)
(* One run of the engine: construct the analyzer, then analyze one page.   *)
(***************************************************************************)
InitFP ==
    /\ \E f \in RuleFiles : sigFile = f.sig /\ catFile = f.cat
    /\ page \in [content : Contents, title : Titles]
    /\ signatures = <<>>
    /\ categories = <<>>
    /\ result = AnalyzeFailed
    /\ catLoop = [category |-> None, evaluated |-> 0]
    /\ fpc = "new"
    /\ ScanIdle
    /\ HeadersIdle
    /\ HandlerIdle

\* SignatureAnalyzer.__init__
Construct ==
    /\ fpc = "new"
    /\ signatures' = LoadFile(sigFile)
    /\ categories' = LoadFile(catFile)
    /\ fpc' = "loaded"
    /\ UNCHANGED <<sigFile, catFile, page, result, catLoop>>
    /\ UNCHANGED <<scanvars, havars, bhvars>>

\* SignatureAnalyzer.analyze
Analyze ==
    /\ fpc = "loaded"
    /\ result' = AnalyzePage(signatures, categories, page)
    /\ catLoop' = CategoryScan(categories, page.content, 0)
    /\ fpc' = "analyzed"
    /\ UNCHANGED <<sigFile, catFile, page, signatures, categories>>
    /\ UNCHANGED <<scanvars, havars, bhvars>>

NextFP == Construct \/ Analyze

SpecFP == InitFP /\ [][NextFP]_vars

(***************************************************************************)
(* What the claims about the engine speak of, said without the loops.      *)
(***************************************************************************)
\* p occurs in s when letter case is ignored
OccursIgnoringCase(s, p) ==
    \E k \in 0..(Len(s) - Len(p)) :
        \A j \in 1..Len(p) : LowerChar(s[k + j]) = LowerChar(p[j])

\* a loaded line is a rule when it has at least two |-separated fields
IsRule(line) == \E k \in 1..Len(line) : line[k] = "|"

PatternField(line) == SubSeq(line, 1, Find(line, "|") - 1)

SecondField(line) == Strip(Split(line, "|")[2])

\* every ;-separated pattern of the rule occurs in the content
RuleMatches(line, content) ==
    /\ IsRule(line)
    /\ LET ps == Split(PatternField(line), ";")
       IN  \A k \in 1..Len(ps) : OccursIgnoringCase(content, ps[k])

\* the positions of the matching rules in a loaded list
Matching(lines, content) ==
    {k \in 1..Len(lines) : RuleMatches(lines[k], content)}

\* the n-th smallest member of a set of positions
NthOf(S, n) == CHOOSE k \in S : Cardinality({j \in S : j < k}) = n - 1

\* the smallest member
FirstOf(S) == CHOOSE k \in S : \A j \in S : k <= j

Analyzed == fpc = "analyzed"

\* C6: identified_applications holds one entry for each signature rule all of
\* whose patterns occur in the content ignoring case, and none for any other
\* rule, in rule-file order; two rules naming one application both yield an
\* entry, and a rule whose pattern field is empty matches every page.
C6_IdentifiedApplications ==
    Analyzed =>
        LET apps == result.identified_applications
            M    == Matching(signatures, page.content)
        IN  /\ Len(apps) = Cardinality(M)
            /\ \A n \in 1..Len(apps) :
                  LET line == signatures[NthOf(M, n)]
                  IN  /\ apps[n].patterns = Split(PatternField(line), ";")
                      /\ apps[n].credentials = SecondField(line)
            /\ \A k \in 1..Len(signatures) :
                  (IsRule(signatures[k]) /\ PatternField(signatures[k]) = <<>>)
                      => k \in M

\* C6 witness: three loaded lines, two of them matching rules that name the
\* same application, one with an upper-case pattern found in lower case.
C6_Witness ==
    /\ Analyzed
    /\ Len(signatures) = 3
    /\ Len(result.identified_applications) = 2
    /\ result.identified_applications[1].name = result.identified_applications[2].name
    /\ result.identified_applications[1].patterns = <<<<"a">>, <<"B">>>>
    /\ ~Contains(page.content, <<"a">>)
    /\ ~Contains(page.content, <<"B">>)

\* C7: when some category rule fully matches the content, the category the
\* rule loop assigns is the name of the earliest matching rule, the loop
\* visits no line after it, and the returned category is that name (unless it
\* is empty, where the title heuristics of C8 come in).
C7_FirstCategoryWins ==
    (Analyzed /\ Matching(categories, page.content) # {}) =>
        LET first == FirstOf(Matching(categories, page.content))
            name  == SecondField(categories[first])
        IN  /\ catLoop.category = name
            /\ catLoop.evaluated = first
            /\ name # <<>> => result.category = name

\* C7 witness: two category rules with different names match, the first wins.
C7_Witness ==
    /\ Analyzed
    /\ Cardinality(Matching(categories, page.content)) >= 2
    /\ LET M == Matching(categories, page.content)
       IN  /\ SecondField(categories[NthOf(M, 1)]) # SecondField(categories[NthOf(M, 2)])
           /\ result.category = SecondField(categories[NthOf(M, 1)])
           /\ catLoop.evaluated < Len(categories)

\* C8: whenever some category rule fully matched, whatever name it carries,
\* the final category is that rule's name; the title heuristics never replace it.
C8_FallbackOnlyWithoutMatch ==
    (Analyzed /\ Matching(categories, page.content) # {}) =>
        result.category =
            SecondField(categories[FirstOf(Matching(categories, page.content))])

TitleUnauth(t) == Contains(t, T403) \/ Contains(t, T401)
TitleDirlist(t) ==
    Contains(t, TIndexOf) \/ Contains(t, TDirListing) \/ Contains(t, TDirOf)
TitleNotfound(t) == Contains(t, T404)

\* C9: when no category rule matched and the title is not empty, the category
\* is unauth for a 403/401 title, else dirlist for a directory-listing title,
\* else notfound for a 404 title, else absent; an empty title leaves it absent.
C9_TitleFallback ==
    (Analyzed /\ Matching(categories, page.content) = {}) =>
        /\ page.title = <<>> => result.category = None
        /\ TitleUnauth(page.title) => result.category = Unauth
        /\ (~TitleUnauth(page.title) /\ TitleDirlist(page.title))
               => result.category = Dirlist
        /\ (~TitleUnauth(page.title) /\ ~TitleDirlist(page.title)
              /\ TitleNotfound(page.title)) => result.category = Notfound
        /\ (~TitleUnauth(page.title) /\ ~TitleDirlist(page.title)
              /\ ~TitleNotfound(page.title)) => result.category = None

\* C9 witness: category lines were loaded, none matched, and a title of two
\* groups got the group of higher precedence.
C9_Witness ==
    /\ Analyzed
    /\ categories # <<>>
    /\ Matching(categories, page.content) = {}
    /\ TitleUnauth(page.title) /\ TitleDirlist(page.title)
    /\ Find(page.title, "I") = 1
    /\ result.category = Unauth

\* C10: default_credentials holds no text twice, holds the credential text of
\* every matching signature rule and nothing else, in the order of the first
\* matching rule that carries each text.
C10_DefaultCredentials ==
    Analyzed =>
        LET creds == result.default_credentials
            M     == Matching(signatures, page.content)
            FirstWith(c) == FirstOf({k \in M : SecondField(signatures[k]) = c})
        IN  /\ \A n, m \in 1..Len(creds) : creds[n] = creds[m] => n = m
            /\ \A k \in M : \E n \in 1..Len(creds) :
                  creds[n] = SecondField(signatures[k])
            /\ \A n \in 1..Len(creds) : \E k \in M :
                  creds[n] = SecondField(signatures[k])
            /\ \A n, m \in 1..Len(creds) :
                  n < m => FirstWith(creds[n]) < FirstWith(creds[m])

\* C10 witness: three rules matched, two of them with the same credential text.
C10_Witness ==
    /\ Analyzed
    /\ Len(result.identified_applications) = 3
    /\ Len(result.default_credentials) = 2
    /\ result.identified_applications[1].credentials
           = result.identified_applications[3].credentials

(***************************************************************************)
(* Python dicts: functions whose domain is the set of keys present.        *)
(***************************************************************************)
Put(d, k, v) == (k :> v) @@ d

Has(d, k) == k \in DOMAIN d

\* d.get(k, default)
Get(d, k, default) == IF k \in DOMAIN d THEN d[k] ELSE default

\* str(e): the text of an exception
Msg(what) == <<what>>

(***************************************************************************)
(* The web the batch scans: what each URL serves.                          *)
(***************************************************************************)
UrlAB == <<"h", ":", "/", "/", "a", ".", "b">>      \* h://a.b
UrlC == <<"h", ":", "/", "/", "c">>                 \* h://c

Urls == {UrlAB, UrlC}

XFrameLower == <<"x", "-", "f", "r", "a", "m", "e", "-", "o", "p", "t", "i", "o", "n", "s">>
ServerName == <<"s", "e", "r", "v", "e", "r">>

\* page.content() and page.title() of the rendered page
PageOf(url) ==
    IF url = UrlAB THEN [content |-> <<"A", "b">>, title |-> T403]
    ELSE [content |-> <<"b">>, title |-> TIndexOf]

\* the <meta> name/content pairs page.evaluate collects
MetaTags(url) ==
    IF url = UrlAB THEN (<<"d">> :> <<"x">>) ELSE <<>>

\* response.headers of page.request.fetch(url): name/value pairs
ResponseHeaders(url) ==
    IF url = UrlAB
    THEN <<[name |-> ServerName, value |-> <<"n">>],
           [name |-> XFrameLower, value |-> <<"D">>]>>
    ELSE <<>>

(***************************************************************************)
(* process_url's per-target directory name                                 *)
(***************************************************************************)
\* str.replace(old, new): left to right, without overlap
RECURSIVE Replace(_, _, _)
Replace(s, old, new) ==
    IF Len(s) < Len(old) THEN s
    ELSE IF SubSeq(s, 1, Len(old)) = old
         THEN new \o Replace(SubSeq(s, Len(old) + 1, Len(s)), old, new)
         ELSE <<Head(s)>> \o Replace(Tail(s), old, new)

\* url.replace("://", "_").replace("/", "_").replace(".", "_")
SafeName(url) ==
    Replace(Replace(Replace(url, <<":", "/", "/">>, <<"_">>), <<"/">>, <<"_">>),
            <<".">>, <<"_">>)

ScreenshotPath(url) == <<SafeName(url), "screenshot.png">>

DataPath(url) == <<SafeName(url), "data.json">>

(***************************************************************************)
(* HeadersAnalyzer.analyze                                                 *)
(***************************************************************************)
SecurityHeaderNames ==
    << <<"C", "o", "n", "t", "e", "n", "t", "-", "S", "e", "c", "u", "r", "i", "t", "y", "-", "P", "o", "l", "i", "c", "y">>,
       <<"X", "-", "X", "S", "S", "-", "P", "r", "o", "t", "e", "c", "t", "i", "o", "n">>,
       <<"X", "-", "C", "o", "n", "t", "e", "n", "t", "-", "T", "y", "p", "e", "-", "O", "p", "t", "i", "o", "n", "s">>,
       <<"X", "-", "F", "r", "a", "m", "e", "-", "O", "p", "t", "i", "o", "n", "s">>,
       <<"S", "t", "r", "i", "c", "t", "-", "T", "r", "a", "n", "s", "p", "o", "r", "t", "-", "S", "e", "c", "u", "r", "i", "t", "y">>,
       <<"R", "e", "f", "e", "r", "r", "e", "r", "-", "P", "o", "l", "i", "c", "y">>,
       <<"F", "e", "a", "t", "u", "r", "e", "-", "P", "o", "l", "i", "c", "y">>,
       <<"P", "e", "r", "m", "i", "s", "s", "i", "o", "n", "s", "-", "P", "o", "l", "i", "c", "y">> >>

NotSet == <<"N", "o", "t", " ", "s", "e", "t">>

\* the lookup with the names compared as they are written
SecurityHeaderExact(headers, header) ==
    IF \E k \in 1..Len(headers) : headers[k].name = header
    THEN headers[CHOOSE k \in 1..Len(headers) : headers[k].name = header].value
    ELSE NotSet

\* the value of the first response header whose name equals `header` ignoring
\* case, "Not set" when there is none
SecurityHeader(headers, header) ==
    IF \E k \in 1..Len(headers) : Lower(headers[k].name) = Lower(header)
    THEN headers[CHOOSE k \in 1..Len(headers) :
                    /\ Lower(headers[k].name) = Lower(header)
                    /\ \A j \in 1..(k - 1) : Lower(headers[j].name) # Lower(header)].value
    ELSE NotSet

\* for header in security_headers: result["security_headers"][header] = ...
SecurityHeaders(headers) ==
    [h \in {SecurityHeaderNames[k] : k \in 1..Len(SecurityHeaderNames)} |->
        SecurityHeader(headers, h)]

\* the dict HeadersAnalyzer.analyze returns
HeadersData(url) ==
    LET headers == ResponseHeaders(url)
    IN  [http_headers |->
             [n \in {headers[k].name : k \in 1..Len(headers)} |->
                 headers[CHOOSE k \in 1..Len(headers) : headers[k].name = n].value],
         metadata |-> [title |-> PageOf(url).title, meta_tags |-> MetaTags(url)],
         security_headers |-> SecurityHeaders(headers)]

(***************************************************************************)
(* One call of HeadersAnalyzer.analyze, for every response the server may  *)
(* send: the loop over the eight security headers.                         *)
(***************************************************************************)
XFrame == SecurityHeaderNames[4]
XFrameUpper == <<"X", "-", "F", "R", "A", "M", "E", "-", "O", "P", "T", "I", "O", "N", "S">>
ReferrerLower == Lower(SecurityHeaderNames[6])

\* the header names a server may send, the values it may give them
HeaderNames == {XFrame, XFrameLower, XFrameUpper, ReferrerLower, ServerName}

HeaderValues == {<<"D">>, NotSet}

\* response.headers is a dict: no name occurs twice as written
HeaderSets ==
    {hs \in SeqsUpTo([name : HeaderNames, value : HeaderValues], MaxHeaders) :
        \A j, k \in 1..Len(hs) : hs[j].name = hs[k].name => j = k}

InitHA ==
    /\ response \in HeaderSets
    /\ security = <<>>
    /\ hapc = "fetched"
    /\ EngineIdle
    /\ ScanIdle
    /\ HandlerIdle

\* lines 17-37: headers = response.headers, then the security-header loop
AnalyzeHeaders ==
    /\ hapc = "fetched"
    /\ security' = SecurityHeaders(response)
    /\ hapc' = "analyzed"
    /\ UNCHANGED response
    /\ UNCHANGED <<fpvars, scanvars, bhvars>>

NextHA == AnalyzeHeaders

SpecHA == InitHA /\ [][NextHA]_vars

\* two header names that differ at most in letter case
SameIgnoringCase(a, b) ==
    /\ Len(a) = Len(b)
    /\ \A k \in 1..Len(a) : LowerChar(a[k]) = LowerChar(b[k])

\* the positions of the response headers named `header`, letter case ignored
Named(headers, header) ==
    {k \in 1..Len(headers) : SameIgnoringCase(headers[k].name, header)}

\* C11: whatever headers the server sent, security_headers has exactly the
\* eight fixed names as keys; each maps to the value of the response header of
\* that name, letter case ignored (the first one when several differ only in
\* case), or to "Not set" when there is none.
C11_SecurityHeaders ==
    hapc = "analyzed" =>
        /\ DOMAIN security = {SecurityHeaderNames[k] : k \in 1..Len(SecurityHeaderNames)}
        /\ Cardinality(DOMAIN security) = 8
        /\ \A h \in DOMAIN security :
              IF Named(response, h) = {} THEN security[h] = NotSet
              ELSE security[h] = response[FirstOf(Named(response, h))].value

\* C11 witness: the server sent X-Frame-Options in lower case and a header
\* that is no security header; the mapping has its value under the fixed
\* spelling and "Not set" under Referrer-Policy.
C11_Witness ==
    /\ hapc = "analyzed"
    /\ Len(response) = 2
    /\ response[1].name = ServerName
    /\ response[2] = [name |-> XFrameLower, value |-> <<"D">>]
    /\ security[XFrame] = <<"D">>
    /\ security[SecurityHeaderNames[6]] = NotSet

(***************************************************************************)
(* BrowserHandler: each of playwright, browser, context is "none" (the     *)
(* field is None), "open" (acquired and live) or "closed" (released; the   *)
(* field still refers to it).                                              *)
(***************************************************************************)
\* BrowserHandler.__init__
NewHandler == [playwright |-> "none", browser |-> "none", context |-> "none"]

\* what a call to one of close()'s three releases can do
CloseFaults == {"none", "context", "playwright"}

\* BrowserHandler.close(): the releases in order context, browser, playwright,
\* each only if the field is set; the first that raises ends the call.
CloseHandler(h, failAt) ==
    LET ctxRaises == h.context # "none" /\ failAt = "context"
        brRaises  == ~ctxRaises /\ h.browser # "none" /\ failAt = "browser"
        pwRaises  == ~ctxRaises /\ ~brRaises
                       /\ h.playwright # "none" /\ failAt = "playwright"
    IN  [handler |->
            [context    |-> IF h.context # "none" /\ ~ctxRaises
                            THEN "closed" ELSE h.context,
             browser    |-> IF h.browser # "none" /\ ~ctxRaises /\ ~brRaises
                            THEN "closed" ELSE h.browser,
             playwright |-> IF h.playwright # "none" /\ ~ctxRaises /\ ~brRaises
                                 /\ ~pwRaises
                            THEN "closed" ELSE h.playwright],
         raised |-> ctxRaises \/ brRaises \/ pwRaises]

\* how navigate_to_url can end
NavFaults ==
    {"none", "playwright_start", "launch", "new_context", "new_page",
     "no_response", "timeout"}

\* what the handler holds when navigate_to_url stops acquiring at `nav`
Acquired(nav) ==
    [playwright |-> IF nav = "playwright_start" THEN "none" ELSE "open",
     browser    |-> IF nav \in {"playwright_start", "launch"} THEN "none" ELSE "open",
     context    |-> IF nav \in {"playwright_start", "launch", "new_context"}
                    THEN "none" ELSE "open"]

\* BrowserHandler.navigate_to_url: the handler it leaves and the exception it
\* raises (None when it returns the page). Only a failure of goto or of the
\* network-idle wait is inside the try whose handler calls close().
NavigateToUrl(nav, closeFault) ==
    IF nav = "none" THEN [handler |-> Acquired(nav), error |-> None]
    ELSE IF nav \in {"no_response", "timeout"}
    THEN LET c == CloseHandler(Acquired(nav), closeFault)
         IN  [handler |-> c.handler,
              error   |-> IF c.raised THEN Msg("close") ELSE Msg(nav)]
    ELSE [handler |-> Acquired(nav), error |-> Msg(nav)]

(***************************************************************************)
(* One BrowserHandler and its owner, who may call navigate_to_url once and *)
(* close() at any time, before and after it.                               *)
(***************************************************************************)
Resources == {"context", "browser", "playwright"}

\* where a call of close() can fail
ReleaseFaults == CloseFaults \cup {"browser"}

\* the resources whose release a call of close() on h calls, when the
\* release of `failAt` raises
ReleasesCalled(h, failAt) ==
    LET ctxRaises == h.context # "none" /\ failAt = "context"
        brRaises  == ~ctxRaises /\ h.browser # "none" /\ failAt = "browser"
    IN  {r \in Resources :
            /\ h[r] # "none"
            /\ r = "browser" => ~ctxRaises
            /\ r = "playwright" => ~ctxRaises /\ ~brRaises}

InitBH ==
    /\ session = NewHandler
    /\ released = [r \in Resources |-> 0]
    /\ closeCalls = 0
    /\ raised = None
    /\ bhpc = "new"
    /\ EngineIdle
    /\ ScanIdle
    /\ HeadersIdle

\* page = await handler.navigate_to_url(url)
BHNavigate ==
    /\ bhpc = "new"
    /\ \E nav \in NavFaults :
       \E closeFault \in IF nav \in {"no_response", "timeout"}
                         THEN ReleaseFaults ELSE {"none"} :
          LET r == NavigateToUrl(nav, closeFault)
          IN  /\ session' = r.handler
              /\ raised' = r.error
              /\ bhpc' = IF r.error = None THEN "navigated" ELSE "failed"
              /\ released' =
                    IF nav \in {"no_response", "timeout"}
                    THEN [x \in Resources |->
                            IF x \in ReleasesCalled(Acquired(nav), closeFault)
                            THEN released[x] + 1 ELSE released[x]]
                    ELSE released
    /\ UNCHANGED closeCalls
    /\ UNCHANGED <<fpvars, scanvars, havars>>

\* await handler.close()
BHClose ==
    /\ closeCalls < MaxCloses
    /\ \E failAt \in ReleaseFaults :
          LET c == CloseHandler(session, failAt)
          IN  /\ session' = c.handler
              /\ raised' = IF c.raised THEN Msg("close") ELSE None
              /\ released' =
                    [x \in Resources |->
                        IF x \in ReleasesCalled(session, failAt)
                        THEN released[x] + 1 ELSE released[x]]
    /\ closeCalls' = closeCalls + 1
    /\ UNCHANGED bhpc
    /\ UNCHANGED <<fpvars, scanvars, havars>>

NextBH == BHNavigate \/ BHClose

SpecBH == InitBH /\ [][NextBH]_vars

(***************************************************************************)
(* process_url: one task per target. A task runs from one await to the     *)
(* next without interruption; each action below is one such stretch, named *)
(* after the awaited call whose completion starts it.                      *)
(***************************************************************************)
Tasks == 1..Len(targets)

Pending == [kind |-> "pending", value |-> <<>>]

AllStarted == \A j \in Tasks : pc[j] # "start"

\* the task ends: process_url returns `value` or raises it
Finish(i, kind, value) ==
    /\ pc' = [pc EXCEPT ![i] = "done"]
    /\ outcome' = [outcome EXCEPT ![i] = [kind |-> kind, value |-> value]]
    /\ lastDone' = i

\* the handler as a finally would have it: the error recorded, close() next
CaughtThenClose(i, dict, msg) ==
    /\ res' = [res EXCEPT ![i] = Put(dict, "error", msg)]
    /\ pc' = [pc EXCEPT ![i] = "close"]
    /\ UNCHANGED <<outcome, lastDone>>

\* the handler returning a fresh dict: what the steps had stored is dropped
CaughtDiscarding(i, dict, msg) ==
    LET fresh == [url |-> dict["url"], timestamp |-> dict["timestamp"],
                  error |-> msg]
    IN  /\ res' = [res EXCEPT ![i] = fresh]
        /\ Finish(i, "returned", fresh)

\* except Exception as e: results["error"] = str(e); return results
Caught(i, dict, msg) ==
    /\ res' = [res EXCEPT ![i] = Put(dict, "error", msg)]
    /\ Finish(i, "returned", Put(dict, "error", msg))

\* lines 31-46: mkdir, the results dict, the collaborators, up to the first
\* await. gather starts the tasks in the order of the targets.
Start(i) ==
    /\ mainpc = "gather"
    /\ pc[i] = "start"
    /\ \A j \in 1..(i - 1) : pc[j] # "start"
    /\ \E mkdirFails \in BOOLEAN :
          IF mkdirFails
          THEN /\ Finish(i, "raised", [exception |-> "OSError",
                                       filename  |-> SafeName(targets[i])])
               /\ fault' = [fault EXCEPT ![i] = {"mkdir"}]
               /\ UNCHANGED <<res, analyzer, handler, dirs, clock>>
          ELSE /\ dirs' = dirs \cup {SafeName(targets[i])}
               /\ res' = [res EXCEPT ![i] =
                             [url |-> targets[i], timestamp |-> clock]]
               /\ clock' = clock + 1
               /\ handler' = [handler EXCEPT ![i] = NewHandler]
               /\ analyzer' = [analyzer EXCEPT ![i] =
                                  [signatures |-> LoadFile(sigFile),
                                   categories |-> LoadFile(catFile)]]
               /\ pc' = [pc EXCEPT ![i] = "navigate"]
               /\ UNCHANGED <<fault, outcome, lastDone>>
    /\ UNCHANGED <<targets, mainpc, results, stats, files, steps>>
    /\ UNCHANGED <<fpvars, havars, bhvars>>

\* line 46: page = await browser_handler.navigate_to_url(url)
Navigate(i) ==
    /\ mainpc = "gather"
    /\ AllStarted
    /\ pc[i] = "navigate"
    /\ \E nav \in NavFaults :
       \E closeFault \in IF nav \in {"no_response", "timeout"}
                         THEN CloseFaults ELSE {"none"} :
          LET r == NavigateToUrl(nav, closeFault)
          IN  /\ handler' = [handler EXCEPT ![i] = r.handler]
              /\ IF r.error = None
                 THEN /\ pc' = [pc EXCEPT ![i] = "headers"]
                      /\ UNCHANGED <<res, fault, outcome, lastDone>>
                 ELSE /\ Caught(i, res[i], r.error)
                      /\ fault' = [fault EXCEPT ![i] = @ \cup {"navigate"}]
    /\ steps' = [steps EXCEPT ![i] = Append(@, "navigate")]
    /\ UNCHANGED <<targets, mainpc, analyzer, results, stats, dirs, files, clock>>
    /\ UNCHANGED <<fpvars, havars, bhvars>>

\* lines 48-49: headers_data = await headers_analyzer.analyze(page, url)
Headers(i) ==
    /\ mainpc = "gather"
    /\ AllStarted
    /\ pc[i] = "headers"
    /\ \E ok \in BOOLEAN :
          IF ok
          THEN /\ res' = [res EXCEPT ![i] =
                             Put(@, "headers", HeadersData(targets[i]))]
               /\ pc' = [pc EXCEPT ![i] = "signatures"]
               /\ UNCHANGED <<fault, outcome, lastDone>>
          ELSE /\ Caught(i, res[i], Msg("headers"))
               /\ fault' = [fault EXCEPT ![i] = @ \cup {"headers"}]
    /\ steps' = [steps EXCEPT ![i] = Append(@, "headers")]
    /\ UNCHANGED <<targets, mainpc, analyzer, handler, results, stats, dirs,
                   files, clock>>
    /\ UNCHANGED <<fpvars, havars, bhvars>>

\* lines 51-52: signature_data = await signature_analyzer.analyze(page).
\* analyze catches a failure of page.content() or page.title() itself and
\* returns its initial result.
Signatures(i) ==
    /\ mainpc = "gather"
    /\ AllStarted
    /\ pc[i] = "signatures"
    /\ \E ok \in BOOLEAN :
          /\ res' = [res EXCEPT ![i] =
                Put(@, "signatures",
                    IF ok THEN AnalyzePage(analyzer[i].signatures,
                                           analyzer[i].categories,
                                           PageOf(targets[i]))
                    ELSE AnalyzeFailed)]
          /\ fault' = [fault EXCEPT ![i] =
                          IF ok THEN @ ELSE @ \cup {"signatures"}]
    /\ pc' = [pc EXCEPT ![i] = "screenshot"]
    /\ steps' = [steps EXCEPT ![i] = Append(@, "signatures")]
    /\ UNCHANGED <<targets, mainpc, analyzer, handler, outcome, lastDone,
                   results, stats, dirs, files, clock>>
    /\ UNCHANGED <<fpvars, havars, bhvars>>

\* lines 54-59: the screenshot, then results["screenshot"] and the JSON
\* sidecar, written before the next await
Screenshot(i) ==
    /\ mainpc = "gather"
    /\ AllStarted
    /\ pc[i] = "screenshot"
    /\ \E shot \in {"ok", "screenshot", "sidecar"} :
          LET png      == [by |-> i, content |-> <<"png", targets[i]>>]
              withShot == Put(res[i], "screenshot", ScreenshotPath(targets[i]))
              sidecar  == [by |-> i, content |-> withShot]
          IN  /\ IF shot = "screenshot"
                  THEN /\ Caught(i, res[i], Msg("screenshot"))
                       /\ fault' = [fault EXCEPT ![i] = @ \cup {"screenshot"}]
                       /\ UNCHANGED files
                  ELSE IF shot = "sidecar"
                  THEN /\ files' = Put(files, ScreenshotPath(targets[i]), png)
                       /\ Caught(i, withShot, Msg("sidecar"))
                       /\ fault' = [fault EXCEPT ![i] = @ \cup {"sidecar"}]
                  ELSE /\ files' = Put(Put(files, ScreenshotPath(targets[i]), png),
                                       DataPath(targets[i]), sidecar)
                       /\ res' = [res EXCEPT ![i] = withShot]
                       /\ pc' = [pc EXCEPT ![i] = "close"]
                       /\ UNCHANGED <<fault, outcome, lastDone>>
              /\ steps' = [steps EXCEPT ![i] =
                              IF shot = "screenshot" THEN Append(@, "screenshot")
                              ELSE @ \o <<"screenshot", "sidecar">>]
    /\ UNCHANGED <<targets, mainpc, analyzer, handler, results, stats, dirs, clock>>
    /\ UNCHANGED <<fpvars, havars, bhvars>>

\* lines 61-62: await browser_handler.close(); return results
Close(i) ==
    /\ mainpc = "gather"
    /\ AllStarted
    /\ pc[i] = "close"
    /\ \E closeFault \in CloseFaults :
          LET c == CloseHandler(handler[i], closeFault)
          IN  /\ handler' = [handler EXCEPT ![i] = c.handler]
              /\ IF c.raised
                 THEN /\ Caught(i, res[i], Msg("close"))
                      /\ fault' = [fault EXCEPT ![i] = @ \cup {"close"}]
                 ELSE /\ Finish(i, "returned", res[i])
                      /\ UNCHANGED <<res, fault>>
    /\ steps' = [steps EXCEPT ![i] = Append(@, "close")]
    /\ UNCHANGED <<targets, mainpc, analyzer, results, stats, dirs, files, clock>>
    /\ UNCHANGED <<fpvars, havars, bhvars>>

(***************************************************************************)
(* main: results = await asyncio.gather(tasks, return_exceptions=True)     *)
(***************************************************************************)
\* gather returning as soon as one task has raised (return_exceptions=False)
GatherCompleteOnFirstException ==
    \/ \A i \in Tasks : pc[i] = "done"
    \/ \E i \in Tasks : outcome[i].kind = "raised"

\* with return_exceptions=True gather completes when every task has ended
GatherComplete == \A i \in Tasks : pc[i] = "done"

\* the outcomes collected as the tasks complete: the one that completed last
\* comes last
GatherResultsAsCompleted ==
    LET earlier == SelectSeq([i \in Tasks |-> i], LAMBDA i : i # lastDone)
        order   == IF lastDone = 0 THEN earlier ELSE Append(earlier, lastDone)
    IN  [i \in 1..Len(order) |-> outcome[order[i]]]

\* gather's list: the i-th element is the outcome of the i-th awaitable
GatherResults == [i \in Tasks |-> outcome[i]]

Join ==
    /\ mainpc = "gather"
    /\ GatherComplete
    /\ results' = GatherResults
    /\ mainpc' = "report"
    /\ UNCHANGED <<targets, pc, res, analyzer, handler, fault, outcome,
                   lastDone, stats, dirs, files, clock, steps>>
    /\ UNCHANGED <<fpvars, havars, bhvars>>

(***************************************************************************)
(* ReportGenerator.generate_reports                                        *)
(***************************************************************************)
Unknown == <<"U", "n", "k", "n", "o", "w", "n">>

NewStats ==
    [total_urls |-> Len(results), errors |-> 0, categories |-> <<>>,
     apps_identified |-> <<>>, default_creds_found |-> 0, reports |-> <<>>]

\* isinstance(result, Exception)
IsException(r) == r.kind = "raised"

\* lines 40-47: a result with a screenshot whose file exists gets the file's
\* encoded bytes, or None when reading it fails
WithScreenshotData(r, readable) ==
    IF Has(r.value, "screenshot") /\ r.value["screenshot"] \in DOMAIN files
    THEN [r EXCEPT !.value =
             Put(@, "screenshot_data",
                 IF readable
                 THEN <<"base64", files[r.value["screenshot"]].content>>
                 ELSE None)]
    ELSE r

EmptySignatures ==
    [identified_applications |-> <<>>, default_credentials |-> <<>>]

\* lines 49-59: report_stats of the i-th result (report_{i}.html)
ReportStats(i, r) ==
    LET sigs == Get(r, "signatures", EmptySignatures)
    IN  [url        |-> r["url"],
         timestamp  |-> r["timestamp"],
         report_url |-> i - 1,
         title      |-> IF Has(r, "headers")
                        THEN r["headers"].metadata.title ELSE Unknown,
         category   |-> IF Has(r, "signatures") THEN sigs.category ELSE Unknown,
         apps_count |-> Len(sigs.identified_applications),
         has_default_creds |-> Len(sigs.default_credentials) > 0,
         screenshot |-> Get(r, "screenshot", None),
         error      |-> Get(r, "error", None)]

\* the counter set to 1 instead of raised by 1
IncrementFromZero(d, k) == Put(d, k, 1)

\* d[k] += 1, d[k] starting at 0
Increment(d, k) == Put(d, k, Get(d, k, 0) + 1)

\* lines 68-72: one count per identified application, by name
RECURSIVE CountApps(_, _)
CountApps(counts, apps) ==
    IF apps = <<>> THEN counts
    ELSE CountApps(Increment(counts, Head(apps).name), Tail(apps))

\* the body of `for i, result in enumerate(results)` for one result
Aggregate(st, i, r) ==
    IF IsException(r) THEN [st EXCEPT !.errors = @ + 1]
    ELSE LET report   == ReportStats(i, r.value)
             category == IF Falsy(report.category) THEN Unknown ELSE report.category
             sigs     == Get(r.value, "signatures", EmptySignatures)
         IN  [st EXCEPT
                 !.reports = Append(@, report),
                 !.categories = Increment(@, category),
                 !.apps_identified = CountApps(@, sigs.identified_applications),
                 !.default_creds_found =
                     IF report.has_default_creds THEN @ + 1 ELSE @]

RECURSIVE AggregateFrom(_, _, _)
AggregateFrom(st, rs, i) ==
    IF i > Len(rs) THEN st
    ELSE AggregateFrom(Aggregate(st, i, rs[i]), rs, i + 1)

GenerateReports ==
    /\ mainpc = "report"
    /\ \E readable \in BOOLEAN :
          LET seen == [i \in Tasks |->
                          IF IsException(results[i]) THEN results[i]
                          ELSE WithScreenshotData(results[i], readable)]
          IN  /\ results' = seen
              /\ stats' = AggregateFrom(NewStats, seen, 1)
    /\ mainpc' = "done"
    /\ UNCHANGED <<targets, pc, res, analyzer, handler, fault, outcome,
                   lastDone, dirs, files, clock, steps>>
    /\ UNCHANGED <<fpvars, havars, bhvars>>

(***************************************************************************)
(* One batch.                                                              *)
(***************************************************************************)
\* what data/signatures.txt and data/categories.txt hold when the batch runs
ScanRuleFiles ==
    { [sig |-> << <<"a", ";", "B", "|", "(", "W", ")", "c">>,
                  <<"b", "|", "(", "W", ")", "c">> >>,
       cat |-> << <<"B", "|">>, <<"b", "|", "y">> >>] }

Init ==
    /\ targets \in SeqsUpTo(Urls, MaxTargets) \ {<<>>}
    /\ \E f \in ScanRuleFiles : sigFile = f.sig /\ catFile = f.cat
    /\ page = [content |-> <<>>, title |-> <<>>]
    /\ signatures = <<>>
    /\ categories = <<>>
    /\ result = AnalyzeFailed
    /\ catLoop = [category |-> None, evaluated |-> 0]
    /\ fpc = "idle"
    /\ mainpc = "gather"
    /\ pc = [i \in Tasks |-> "start"]
    /\ res = [i \in Tasks |-> <<>>]
    /\ analyzer = [i \in Tasks |-> [signatures |-> <<>>, categories |-> <<>>]]
    /\ handler = [i \in Tasks |-> NewHandler]
    /\ fault = [i \in Tasks |-> {}]
    /\ outcome = [i \in Tasks |-> Pending]
    /\ lastDone = 0
    /\ results = <<>>
    /\ stats = <<>>
    /\ dirs = {}
    /\ files = <<>>
    /\ clock = 0
    /\ steps = [i \in Tasks |-> <<>>]
    /\ HeadersIdle
    /\ HandlerIdle

Next ==
    \/ \E i \in Tasks : Start(i)
    \/ \E i \in Tasks : Navigate(i)
    \/ \E i \in Tasks : Headers(i)
    \/ \E i \in Tasks : Signatures(i)
    \/ \E i \in Tasks : Screenshot(i)
    \/ \E i \in Tasks : Close(i)
    \/ Join
    \/ GenerateReports

Spec == Init /\ [][Next]_vars

(***************************************************************************)
(* One batch, with the rule files edited by someone else while it runs.    *)
(***************************************************************************)
\* the rule files after the edit: the first line of each removed
EditedRuleFiles ==
    [sig |-> << <<"b", "|", "(", "W", ")", "c">> >>,
     cat |-> << <<"b", "|", "y">> >>]

\* data/signatures.txt and data/categories.txt are rewritten, once, at any
\* moment of the scan phase
EditRuleFiles ==
    /\ mainpc = "gather"
    /\ [sig |-> sigFile, cat |-> catFile] \in ScanRuleFiles
    /\ sigFile' = EditedRuleFiles.sig
    /\ catFile' = EditedRuleFiles.cat
    /\ UNCHANGED <<page, signatures, categories, result, catLoop, fpc>>
    /\ UNCHANGED <<scanvars, havars, bhvars>>

NextRules == Next \/ EditRuleFiles

SpecRules == Init /\ [][NextRules]_vars

(***************************************************************************)
(* One batch under the event loop's scheduling: a task that is ready to    *)
(* run is run, and every awaited call of the browser returns or raises     *)
(* (goto and the load-state wait at the 30-second default timeout of       *)
(* browser.py line 24). A batch has finitely many steps, so it is enough   *)
(* that some step is taken while one is possible.                          *)
(***************************************************************************)
SpecLive == Init /\ [][Next]_vars /\ WF_vars(Next)

(***************************************************************************)
(* What the claims about the batch speak of.                               *)
(***************************************************************************)
\* what the two analyzers return for each page of the web, for each state of
\* the rule files
HeadersAlone == {<<u, HeadersData(u)>> : u \in Urls}

SignaturesAlone ==
    {<<u, f, AnalyzePage(LoadFile(f.sig), LoadFile(f.cat), PageOf(u))>> :
        u \in Urls, f \in ScanRuleFiles}

\* the dict a scan of `url` alone returns when the steps in F go wrong, by
\* the stage it reaches; the text of `error` aside
ScanAlone(url, ts, F) ==
    LET base    == [url |-> url, timestamp |-> ts]
        failed  == Put(base, "error", Msg("failed"))
        headers == (CHOOSE e \in HeadersAlone : e[1] = url)[2]
        sigs    == IF "signatures" \in F THEN AnalyzeFailed
                   ELSE (CHOOSE e \in SignaturesAlone :
                            /\ e[1] = url
                            /\ e[2] = [sig |-> sigFile, cat |-> catFile])[3]
        fetched == Put(Put(base, "headers", headers), "signatures", sigs)
        shot    == Put(fetched, "screenshot", ScreenshotPath(url))
    IN  IF "navigate" \in F \/ "headers" \in F THEN failed
        ELSE IF "screenshot" \in F THEN Put(fetched, "error", Msg("failed"))
        ELSE IF "sidecar" \in F \/ "close" \in F THEN Put(shot, "error", Msg("failed"))
        ELSE shot

\* two result dicts with the same keys and, the error text aside, the same values
SameButErrorText(d, e) ==
    /\ DOMAIN d = DOMAIN e
    /\ \A k \in DOMAIN d \ {"error"} : d[k] = e[k]

\* the faults that end a scan (a failure inside analyze does not)
ScanFailed(i) == fault[i] \ {"signatures"} # {}

\* C1: the result collection handed to the report generator has the length of
\* the target list, and its i-th element is the outcome of the i-th target's
\* task, whatever the order in which the tasks completed.
C1_ResultsInInputOrder ==
    mainpc = "report" =>
        /\ Len(results) = Len(targets)
        /\ \A i \in 1..Len(targets) :
              /\ results[i].kind # "pending"
              /\ results[i] = outcome[i]
              /\ results[i].kind = "returned"
                    => results[i].value["url"] = targets[i]
              /\ results[i].kind = "raised"
                    => results[i].value.filename = SafeName(targets[i])

\* C1 witness: two different targets, the first of which completed last, both
\* in the collection at their own positions.
C1_Witness ==
    /\ mainpc = "report"
    /\ Len(targets) = 2
    /\ targets[1] # targets[2]
    /\ lastDone = 1
    /\ results[1].kind = "returned" /\ results[1].value["url"] = targets[1]
    /\ results[2].kind = "returned" /\ results[2].value["url"] = targets[2]

\* C2: when gather has returned, every task has run to its own end, and each
\* task that returned yields the result its own URL and its own faults
\* determine, whatever happened to the other targets; the collection handed
\* on holds every task's outcome.
C2_FaultIsolation ==
    mainpc # "gather" =>
        \A j \in Tasks :
            /\ pc[j] = "done"
            /\ outcome[j].kind = "returned" =>
                  SameButErrorText(outcome[j].value,
                      ScanAlone(targets[j], outcome[j].value["timestamp"], fault[j]))
            /\ outcome[j].kind = "raised" <=> "mkdir" \in fault[j]
            /\ mainpc = "report" => results[j] = outcome[j]

\* C2 witness: the first target's task raised and a later sibling still ran
\* every step and returned its full result without an error.
C2_Witness ==
    /\ mainpc = "report"
    /\ Len(targets) = 2
    /\ outcome[1].kind = "raised"
    /\ lastDone = 2
    /\ results[2].kind = "returned"
    /\ fault[2] = {}
    /\ DOMAIN results[2].value =
           {"url", "timestamp", "headers", "signatures", "screenshot"}
    /\ handler[2].context = "closed"

\* C3: process_url never raises: every task that ended returned a dict with
\* url and timestamp, and with error whenever a step of it failed.
C3_NeverRaises ==
    \A i \in Tasks :
        pc[i] = "done" =>
            /\ outcome[i].kind = "returned"
            /\ {"url", "timestamp"} \subseteq DOMAIN outcome[i].value
            /\ fault[i] # {} => "error" \in DOMAIN outcome[i].value

\* C4: whenever process_url has returned, normally or after a failure of header
\* analysis, screenshot capture or sidecar writing, the context, the browser
\* and the playwright driver its handler acquired are closed.
C4_SessionReleased ==
    \A i \in Tasks :
        (/\ pc[i] = "done"
         /\ outcome[i].kind = "returned"
         /\ fault[i] \subseteq {"signatures", "headers", "screenshot", "sidecar"})
            => /\ handler[i].context # "open"
               /\ handler[i].browser # "open"
               /\ handler[i].playwright # "open"

\* C5: after the batch the aggregate holds one report record per target, in
\* input order, and the record of a failed target carries its error.
C5_OneReportPerTarget ==
    mainpc = "done" =>
        /\ Len(stats.reports) = Len(targets)
        /\ \A i \in 1..Len(targets) :
              /\ stats.reports[i].url = targets[i]
              /\ ScanFailed(i) => stats.reports[i].error # None

\* C12: every ScanResult process_url returned is in the JSON sidecar of its
\* target's directory, with the same fields and values, the error of a failed
\* target included.
C12_SidecarHoldsResult ==
    \A i \in Tasks :
        (pc[i] = "done" /\ outcome[i].kind = "returned") =>
            /\ DataPath(targets[i]) \in DOMAIN files
            /\ files[DataPath(targets[i])].content = outcome[i].value

\* C13: generate_reports leaves every element of the results collection with
\* the keys and values it had when aggregation started.
C13_ResultsImmutable ==
    [][mainpc = "report" => results' = results]_vars

\* C14: no task writes what another task of the batch wrote: a file once
\* written stays its writer's, and a task's directory is not there before
\* the task creates it.
C14_NoSharedArtifacts ==
    [][/\ \A p \in DOMAIN files : files'[p].by = files[p].by
       /\ \A i \in Tasks :
             (pc[i] = "start" /\ pc'[i] = "navigate")
                 => SafeName(targets[i]) \notin dirs]_vars

\* C15: the aggregate error count is the number of targets whose scan failed:
\* those whose result carries an error field and those whose task raised.
C15_ErrorCount ==
    mainpc = "done" =>
        stats.errors =
            Cardinality({i \in Tasks :
                \/ outcome[i].kind = "raised"
                \/ Has(outcome[i].value, "error")})

\* the steps of one scan, in the order of process_url's try block
ScanOrder == <<"navigate", "headers", "signatures", "screenshot", "sidecar", "close">>

IsPrefix(s, t) ==
    /\ Len(s) <= Len(t)
    /\ \A k \in 1..Len(s) : s[k] = t[k]

\* the steps of task i that raised into process_url (analyze contains its own
\* failures and returns; mkdir comes before the first step)
RaisedSteps(i) == fault[i] \ {"signatures", "mkdir"}

FieldsBefore(k) ==
    IF k \in {"navigate", "headers"} THEN {}
    ELSE IF k = "signatures" THEN {"headers"}
    ELSE IF k = "screenshot" THEN {"headers", "signatures"}
    ELSE {"headers", "signatures", "screenshot"}

\* C17: a scan that failed at step k returns a dict that has url, timestamp
\* and error, the field of every step before k with the value that step
\* stored, and no field of step k or of a later step.
C17_PartialResultKept ==
    \A i \in Tasks :
        (pc[i] = "done" /\ outcome[i].kind = "returned" /\ RaisedSteps(i) # {}) =>
            LET v == outcome[i].value
                k == CHOOSE s \in RaisedSteps(i) : TRUE
            IN  /\ RaisedSteps(i) = {k}
                /\ DOMAIN v = {"url", "timestamp", "error"} \cup FieldsBefore(k)
                /\ v["url"] = targets[i]
                /\ v["timestamp"] \in 0..(clock - 1)
                /\ ~Falsy(v["error"])
                /\ Has(v, "headers") =>
                      v["headers"] = (CHOOSE e \in HeadersAlone : e[1] = targets[i])[2]
                /\ Has(v, "signatures") =>
                      v["signatures"] =
                          IF "signatures" \in fault[i] THEN AnalyzeFailed
                          ELSE (CHOOSE e \in SignaturesAlone :
                                   /\ e[1] = targets[i]
                                   /\ e[2] = [sig |-> sigFile, cat |-> catFile])[3]
                /\ Has(v, "screenshot") => v["screenshot"] = ScreenshotPath(targets[i])

\* C17 witness: the screenshot capture failed; the result keeps the headers
\* and the applications the signature analysis found, has no screenshot, and
\* has error.
C17_Witness ==
    \E i \in Tasks :
        /\ pc[i] = "done"
        /\ fault[i] = {"screenshot"}
        /\ DOMAIN outcome[i].value =
               {"url", "timestamp", "headers", "signatures", "error"}
        /\ outcome[i].value["signatures"].identified_applications # <<>>
        /\ outcome[i].value["headers"].security_headers[XFrame] = <<"D">>

\* C18: whenever navigate_to_url raised, whichever of its calls failed, the
\* handler holds no resource that is still open.
C18_NavigateReleases ==
    \A i \in Tasks :
        "navigate" \in fault[i] =>
            /\ handler[i].context # "open"
            /\ handler[i].browser # "open"
            /\ handler[i].playwright # "open"

\* C19: a call of close(), whatever the handler holds, does not raise, calls
\* the release of every resource that is still open, also after an earlier
\* release of that call failed, and calls no release of a resource that was
\* never acquired or is released already.
C19_CloseIsSafe ==
    [][closeCalls' = closeCalls + 1 =>
          /\ raised' = None
          /\ \A r \in Resources :
                released'[r] = IF session[r] = "open"
                               THEN released[r] + 1 ELSE released[r]]_vars

\* the tasks that have constructed their SignatureAnalyzer
Loaded(i) == pc[i] # "start" /\ "mkdir" \notin fault[i]

\* C20: the rule files are read once per batch, before any scan starts, so
\* every target of the batch is evaluated against the same rule lists, also
\* when the files change while the batch runs.
C20_RulesLoadedOnce ==
    \A i, j \in Tasks :
        (Loaded(i) /\ Loaded(j)) => analyzer[i] = analyzer[j]

\* every task ends, by returning or by raising, gather completes and the
\* reports are generated
BatchTerminates ==
    <>(mainpc = "done" /\ \A i \in Tasks : pc[i] = "done")

\* C21: every process_url task eventually returns, the join over all tasks
\* eventually completes and report generation eventually runs, for every
\* batch and every combination of failures.
C21_EveryTaskReturns ==
    <>(/\ mainpc = "done"
       /\ \A i \in Tasks : pc[i] = "done" /\ outcome[i].kind = "returned")

\* the three result fields the steps of a scan store
StepFields == {"headers", "signatures", "screenshot"}

\* C22: in every dict process_url returned, error is present exactly when at
\* least one of headers, signatures and screenshot is absent.
C22_ErrorIffFieldMissing ==
    \A i \in Tasks :
        (pc[i] = "done" /\ outcome[i].kind = "returned") =>
            (Has(outcome[i].value, "error")
                <=> ~(StepFields \subseteq DOMAIN outcome[i].value))

\* the sum of the counts of a counter dict
RECURSIVE SumOf(_)
SumOf(d) ==
    IF DOMAIN d = {} THEN 0
    ELSE LET k == CHOOSE x \in DOMAIN d : TRUE
         IN  d[k] + SumOf([x \in DOMAIN d \ {k} |-> d[x]])

\* the identified-application entries of the results that are no exceptions
RECURSIVE AppEntries(_)
AppEntries(rs) ==
    IF rs = <<>> THEN 0
    ELSE (IF IsException(Head(rs)) \/ ~Has(Head(rs).value, "signatures") THEN 0
          ELSE Len(Head(rs).value["signatures"].identified_applications))
         + AppEntries(Tail(rs))

\* C23: after generate_reports the category counts sum to the number of
\* report records, that number plus the error count is total_urls,
\* default_creds_found is the number of records flagged has_default_creds, and
\* the application counts sum to the number of identified-application entries
\* of the processed results.
C23_AggregateSums ==
    mainpc = "done" =>
        /\ SumOf(stats.categories) = Len(stats.reports)
        /\ Len(stats.reports) + stats.errors = stats.total_urls
        /\ stats.total_urls = Len(results)
        /\ stats.default_creds_found =
              Cardinality({n \in 1..Len(stats.reports) :
                              stats.reports[n].has_default_creds})
        /\ SumOf(stats.apps_identified) = AppEntries(results)

\* C23 witness: two targets of one category, both with identified
\* applications and default credentials, counted twice each.
C23_Witness ==
    /\ mainpc = "done"
    /\ Len(stats.reports) = 2
    /\ stats.errors = 0
    /\ \E c \in DOMAIN stats.categories : stats.categories[c] = 2
    /\ stats.default_creds_found = 2
    /\ SumOf(stats.apps_identified) >= 2

\* the report record generate_reports makes of a result whose signatures
\* field is what analyze returned
RecordOf(signature_data) ==
    ReportStats(1, [url |-> UrlC, timestamp |-> 0, signatures |-> signature_data])

\* C24: in every result of analyze, default_credentials is non-empty exactly
\* when identified_applications is, that is, exactly when some signature
\* rule matched, whatever its credential text; and the report record is
\* flagged has_default_creds exactly then.
C24_CredentialsIffApplications ==
    Analyzed =>
        /\ result.default_credentials # <<>>
              <=> result.identified_applications # <<>>
        /\ result.identified_applications # <<>>
              <=> Matching(signatures, page.content) # {}
        /\ RecordOf(result).has_default_creds
              <=> Matching(signatures, page.content) # {}
        /\ RecordOf(result).apps_count = Cardinality(Matching(signatures, page.content))

\* C24 witness: the only rule that matched has an empty credential text,
\* and the record is flagged.
C24_Witness ==
    /\ Analyzed
    /\ Len(result.identified_applications) = 1
    /\ result.identified_applications[1].credentials = <<>>
    /\ result.default_credentials = << <<>> >>
    /\ RecordOf(result).has_default_creds

====
